---- MODULE Spec2Model ----
(***************************************************************************)
(* Model of the cafe sales analysis loader: DataLoader.load_data and its   *)
(* helpers (src/src/data/loader.py), load_cafe_data, and the pipeline step *)
(* CafeAnalysisPipeline.run_data_loading (src/main.py).                    *)
(*                                                                         *)
(* A CSV file is a header (a set of column names) and a sequence of rows   *)
(* of text tokens.  A DataFrame cell is a typed value: text, a number, a   *)
(* timestamp, or the missing marker (NaN / NaT).  Amounts are whole        *)
(* currency units; timestamps are hours counted from 2022-12-31 00:00.     *)
(***************************************************************************)
EXTENDS Integers, Sequences, FiniteSets, TLC

(***************************************************************************)
(* Bounds of the model.                                                    *)
(***************************************************************************)
\* longest file (in records) whose header names every required column
MaxRows == 5
\* longest file (in records) whose header lacks a required column
MaxPartialRows == 1

Range(s) == {s[i] : i \in DOMAIN s}

(***************************************************************************)
(* Columns.                                                                *)
(***************************************************************************)
required_columns ==
    {"Transaction Date", "Item", "Quantity", "Price Per Unit",
     "Total Spent", "Payment Method", "Location"}

\* the columns _validate_data_types and _check_outliers go through, in order
numeric_columns == <<"Total Spent", "Quantity", "Price Per Unit">>

\* the columns a file of the data set can carry: the required ones and the
\* transaction identifier, which the loader does not require
AllColumns == required_columns \cup {"Transaction ID"}

(***************************************************************************)
(* Typed cells of a DataFrame.                                             *)
(***************************************************************************)
Str(s) == [kind |-> "str", txt |-> s, num |-> 0]
Num(n) == [kind |-> "num", txt |-> "", num |-> n]
Ts(t)  == [kind |-> "ts",  txt |-> "", num |-> t]
NaN    == [kind |-> "nan", txt |-> "", num |-> 0]

IsNull(c) == c.kind = "nan"

(***************************************************************************)
(* Text tokens and what pandas parses them to.                             *)
(***************************************************************************)
\* tokens read_csv reads as a missing value (a subset of its default list)
NaTokens == {"", "NA", "N/A", "NaN", "null"}

\* the numeric literals of the model and their values
NumericValue ==
    [s \in {"1", "2", "5", "10", "15"} |->
        CASE s = "1" -> 1 [] s = "2" -> 2 [] s = "5" -> 5 [] s = "10" -> 10
          [] s = "15" -> 15]

IsNumericToken(s) == s \in DOMAIN NumericValue

\* the date literals of the model and their values, in hours
DateValue ==
    [s \in {"2023-01-01", "2023-01-02", "2023-01-02 15:00", "2023-01-03"} |->
        CASE s = "2023-01-01" -> 24
          [] s = "2023-01-02" -> 48
          [] s = "2023-01-02 15:00" -> 63
          [] s = "2023-01-03" -> 72]

IsDateToken(s) == s \in DOMAIN DateValue

\* pd.to_numeric(value, errors='coerce') on one cell
\* a to_numeric that leaves what it cannot parse as it is (errors='ignore')
ToNumericMissingKept(c) ==
    IF c.kind = "str" /\ IsNumericToken(c.txt) THEN Num(NumericValue[c.txt]) ELSE c

ToNumeric(c) ==
    CASE c.kind = "num" -> c
      [] c.kind = "str" /\ IsNumericToken(c.txt) -> Num(NumericValue[c.txt])
      [] OTHER -> NaN

\* pd.to_datetime(value, errors='coerce') on one cell
ToDatetime(c) ==
    CASE c.kind = "ts" -> c
      [] c.kind = "str" /\ IsDateToken(c.txt) -> Ts(DateValue[c.txt])
      [] OTHER -> NaN

(***************************************************************************)
(* DataFrames, summaries, errors.                                          *)
(***************************************************************************)
None == "None"

NoData == [isNone |-> TRUE, columns |-> {}, rows |-> <<>>]
DataFrame(cols, rows) == [isNone |-> FALSE, columns |-> cols, rows |-> rows]

NoError == [type |-> None, kind |-> None, fields |-> {}]
Error(type, kind, fields) == [type |-> type, kind |-> kind, fields |-> fields]

(***************************************************************************)
(* The environment: the file system, the CSV files, the configuration.     *)
(***************************************************************************)
\* DataConfig.input_file, the path used when no file_path is given
input_file == "dirty_cafe_sales.csv"

\* the file_path arguments of the model: absent, or another path; the file
\* system of the model holds a file at the configured input path or nowhere
FilePathArgs == {None, "sales_2023.csv"}

CsvRow(id, date, item, qty, price, total, pay, loc) ==
    [c \in AllColumns |->
        CASE c = "Transaction ID" -> id
          [] c = "Transaction Date" -> date
          [] c = "Item" -> item
          [] c = "Quantity" -> qty
          [] c = "Price Per Unit" -> price
          [] c = "Total Spent" -> total
          [] c = "Payment Method" -> pay
          [] c = "Location" -> loc]

\* the records a file is made of: three clean ones, one whose timestamp
\* does not parse, one whose total amount is not a number
Catalogue ==
    { CsvRow("TXN_1", "2023-01-01", "Coffee", "1", "1", "1", "Cash", "In-store"),
      CsvRow("TXN_2", "2023-01-02", "Cake", "2", "1", "2", "Card", "Takeaway"),
      CsvRow("TXN_3", "2023-01-02 15:00", "Coffee", "5", "2", "10", "Card", "In-store"),
      CsvRow("TXN_4", "ERROR", "", "UNKNOWN", "", "2", "UNKNOWN", "In-store"),
      CsvRow("TXN_5", "2023-01-03", "Tea", "2", "1", "ERROR", "", "ERROR") }

SeqsUpTo(S, n) == UNION {[1..k -> S] : k \in 0..n}

Restrict(f, D) == [c \in D |-> f[c]]

CsvFile(header, rows) ==
    [header |-> header, rows |-> [i \in DOMAIN rows |-> Restrict(rows[i], header)]]

\* the headers that lack a required column
PartialHeaders ==
    {(required_columns \ M) \cup {"Transaction ID"} :
        M \in (SUBSET required_columns) \ {{}}}

CsvFiles ==
    {CsvFile(AllColumns, rows) : rows \in SeqsUpTo(Catalogue, MaxRows)}
    \cup
    {CsvFile(h, rows) : h \in PartialHeaders, rows \in SeqsUpTo(Catalogue, MaxPartialRows)}

\* what a path that does not exist holds
NoFile == CsvFile({}, <<>>)

\* AnalysisConfig.start_date / end_date: absent or an ISO date string
DateBounds == {None, "2023-01-02"}

\* Python truthiness of an Optional[str]
Truthy(s) == s # None /\ s # ""

(***************************************************************************)
(* State.                                                                  *)
(***************************************************************************)
VARIABLES
    file_path,   \* DataLoader.file_path
    exists,      \* whether file_path exists in the file system
    file,        \* the CSV file at file_path
    start_date,  \* analysis_config.start_date
    end_date,    \* analysis_config.end_date
    pc,          \* position in load_cafe_data / run_data_loading
    data,        \* DataLoader.data
    err,         \* the exception in flight, if any
    outliers,    \* _check_outliers: column -> index labels of its outliers
    log,         \* the messages logged by the loader
    summary,     \* the value get_data_summary returned
    ret,         \* the value load_cafe_data returned to its caller
    pdata,       \* CafeAnalysisPipeline.data
    psummary,    \* CafeAnalysisPipeline.summary
    result,      \* the value run_data_loading returned
    view,        \* the table the last chart method prepared from its data
    interval,    \* history: the date bounds in force before the last change
                 \* of the configuration
    lookup,      \* the last chart asked for by name, and what came of it
    call,        \* the last method called on the loader from outside a load
    cli,         \* main(): its arguments, the steps it ran, its exit status
    dash,        \* CafeDashboard: its data, filtered_data and widget values
    cfg          \* ConfigManager: its _config and the configuration file

vars == <<file_path, exists, file, start_date, end_date, pc, data, err,
          outliers, log, summary, ret, pdata, psummary, result, view, interval,
          lookup, call, cli, dash, cfg>>

env == <<file_path, exists, file, start_date, end_date, interval>>

\* the state of the components around the loader and the charts
others == <<lookup, call, cli, dash, cfg>>

\* no chart has been asked for by name
NoLookup == [name |-> None, error |-> None]

\* the components around the loader and the charts have not acted
\* no method has been called on the loader from outside
NoCall == [op |-> None, error |-> None]

\* main() has not been entered
NoCli == [mode |-> None]

\* no CafeDashboard has been constructed
NoDash == [isNone |-> TRUE]

\* no ConfigManager is under observation
NoCfg == [isNone |-> TRUE]

Elsewhere ==
    /\ lookup = NoLookup
    /\ call = NoCall
    /\ cli = NoCli
    /\ dash = NoDash
    /\ cfg = NoCfg

NoSummary == [isNone |-> TRUE]
NoReturn == [isNone |-> TRUE]

\* no chart method has run
NoView == [name |-> None, rows |-> <<>>]

\* the objects right after construction: DataLoader.__init__ and
\* CafeAnalysisPipeline.__init__
FreshObjects ==
    /\ data = NoData
    /\ err = NoError
    /\ outliers = [c \in Range(numeric_columns) |-> {}]
    /\ log = <<>>
    /\ summary = NoSummary
    /\ ret = NoReturn
    /\ pdata = NoData
    /\ psummary = NoSummary
    /\ result = None
    /\ view = NoView
    /\ interval = [start |-> None, end |-> None]

\* the objects are fresh and load_cafe_data is about to be called
Fresh ==
    /\ pc = "load_data"
    /\ FreshObjects

Init ==
    /\ \E arg \in FilePathArgs :
          file_path = IF Truthy(arg) THEN arg ELSE input_file
    /\ exists \in (IF file_path = input_file THEN BOOLEAN ELSE {FALSE})
    /\ file \in (IF exists THEN CsvFiles ELSE {NoFile})
    /\ start_date \in DateBounds
    /\ end_date \in DateBounds
    /\ Fresh
    /\ Elsewhere

(***************************************************************************)
(* pd.read_csv(file_path, parse_dates=['Transaction Date']).               *)
(***************************************************************************)
\* a column read without date parsing: numbers when every value present is
\* a number, text otherwise; a missing-value token is NaN either way
InferCell(f, c, i) ==
    LET tok == f.rows[i][c]
        allNumeric == \A j \in DOMAIN f.rows :
                         f.rows[j][c] \in NaTokens \/ IsNumericToken(f.rows[j][c])
    IN  IF tok \in NaTokens THEN NaN
        ELSE IF allNumeric THEN Num(NumericValue[tok])
        ELSE Str(tok)

\* a parse_dates column: timestamps when every value present parses,
\* left as text otherwise
ParseDatesCell(f, c, i) ==
    LET tok == f.rows[i][c]
        allDates == \A j \in DOMAIN f.rows :
                       f.rows[j][c] \in NaTokens \/ IsDateToken(f.rows[j][c])
    IN  IF tok \in NaTokens THEN NaN
        ELSE IF allDates THEN Ts(DateValue[tok])
        ELSE Str(tok)

ReadCsvFrame(f) ==
    DataFrame(f.header,
        [i \in DOMAIN f.rows |->
            [idx |-> i - 1,
             v |-> [c \in f.header |->
                      IF c = "Transaction Date" THEN ParseDatesCell(f, c, i)
                      ELSE InferCell(f, c, i)]]])

\* the except clause of load_data: log the error and re-raise
Raise(e) ==
    /\ err' = e
    /\ log' = Append(log, "error")
    /\ pc' = "raised"

(***************************************************************************)
(* load_data, first part: the path check and the read.                     *)
(***************************************************************************)
\* a load_data that does not check the path before reading
CheckPathSkipped ==
    /\ pc = "load_data"
    /\ pc' = "read_csv"
    /\ UNCHANGED <<env, others, view, data, err, log, outliers, summary, ret, pdata, psummary, result>>

\* load_data, lines 46-50: the path check
CheckPath ==
    /\ pc = "load_data"
    /\ IF ~exists
       THEN Raise(Error("FileNotFoundError", "not_found", {}))
       ELSE /\ pc' = "read_csv"
            /\ UNCHANGED <<err, log>>
    /\ UNCHANGED <<env, others, view, data, outliers, summary, ret, pdata, psummary, result>>

\* load_data, lines 52-61: read_csv raises when the parse_dates column is
\* not in the header, and otherwise sets self.data
ReadCsv ==
    /\ pc = "read_csv"
    /\ IF "Transaction Date" \notin file.header
       THEN /\ Raise(Error("ValueError", "parse_dates", {"Transaction Date"}))
            /\ UNCHANGED data
       ELSE /\ data' = ReadCsvFrame(file)
            /\ log' = Append(log, "raw_data_info")
            /\ pc' = "validate"
            /\ UNCHANGED err
    /\ UNCHANGED <<env, others, view, outliers, summary, ret, pdata, psummary, result>>

(***************************************************************************)
(* _validate_data and its helpers.                                         *)
(***************************************************************************)
MissingColumns(d) == required_columns \ d.columns

\* a _validate_data without the emptiness check
ValidateDataNoEmptyCheck ==
    /\ pc = "validate"
    /\ IF required_columns \ data.columns # {}
       THEN Raise(Error("ValueError", "missing_columns", required_columns \ data.columns))
       ELSE /\ pc' = "validate_data_types"
            /\ UNCHANGED <<err, log>>
    /\ UNCHANGED <<env, others, view, data, outliers, summary, ret, pdata, psummary, result>>

\* _validate_data, lines 79-91: the required-column and emptiness checks
ValidateData ==
    /\ pc = "validate"
    /\ IF MissingColumns(data) # {}
       THEN Raise(Error("ValueError", "missing_columns", MissingColumns(data)))
       ELSE IF data.rows = <<>>
       THEN Raise(Error("ValueError", "empty", {}))
       ELSE /\ pc' = "validate_data_types"
            /\ UNCHANGED <<err, log>>
    /\ UNCHANGED <<env, others, view, data, outliers, summary, ret, pdata, psummary, result>>

\* pd.api.types.is_datetime64_any_dtype of the Transaction Date column
IsDatetimeColumn(d) ==
    \A i \in DOMAIN d.rows : d.rows[i].v["Transaction Date"].kind \in {"ts", "nan"}

\* one row of d after _validate_data_types
CoerceRow(d, r) ==
    [r EXCEPT !.v = [c \in DOMAIN r.v |->
        IF c \in Range(numeric_columns) THEN ToNumeric(r.v[c])
        ELSE IF c = "Transaction Date" /\ ~IsDatetimeColumn(d) THEN ToDatetime(r.v[c])
        ELSE r.v[c]]]

\* a _validate_data_types that also drops the records left with a missing
\* numeric value
ValidateDataTypesDropsMissing ==
    /\ pc = "validate_data_types"
    /\ data' = [data EXCEPT !.rows =
          SelectSeq([i \in DOMAIN data.rows |-> CoerceRow(data, data.rows[i])],
                    LAMBDA r : \A c \in Range(numeric_columns) : ~IsNull(r.v[c]))]
    /\ log' = Append(log, "dtypes_after_validation")
    /\ pc' = "check_outliers"
    /\ UNCHANGED <<env, others, view, err, outliers, summary, ret, pdata, psummary, result>>

\* _validate_data_types, lines 99-127
ValidateDataTypes ==
    /\ pc = "validate_data_types"
    /\ data' = [data EXCEPT !.rows = [i \in DOMAIN data.rows |-> CoerceRow(data, data.rows[i])]]
    /\ log' = Append(log, "dtypes_after_validation")
    /\ pc' = "check_outliers"
    /\ UNCHANGED <<env, others, view, err, outliers, summary, ret, pdata, psummary, result>>

RECURSIVE InsertSorted(_, _)
InsertSorted(x, s) ==
    IF s = <<>> THEN <<x>>
    ELSE IF x <= Head(s) THEN <<x>> \o s
    ELSE <<Head(s)>> \o InsertSorted(x, Tail(s))

RECURSIVE Sorted(_)
Sorted(s) == IF s = <<>> THEN <<>> ELSE InsertSorted(Head(s), Sorted(Tail(s)))

\* four times Series.quantile(num/4) of a non-empty sequence of integers:
\* linear interpolation between the two order statistics around position
\* (n-1)*num/4 (the factor four keeps the arithmetic in the integers)
Quantile4(vals, num) ==
    LET s == Sorted(vals)
        h4 == (Len(s) - 1) * num
        lo == h4 \div 4
        fr == h4 % 4
    IN  IF fr = 0 THEN 4 * s[lo + 1]
        ELSE 4 * s[lo + 1] + fr * (s[lo + 2] - s[lo + 1])

\* the rows of d whose value in column c is present (Series.dropna)
\* a dropna that keeps every row, a missing value counting as 0
DropNaFilled(d, c) == d.rows

DropNa(d, c) == SelectSeq(d.rows, LAMBDA r : ~IsNull(r.v[c]))

\* a _check_outliers that counts a value on a fence as an outlier
ColumnOutliersFenceIncluded(d, c) ==
    LET clean_data == DropNa(d, c)
        vals == [i \in DOMAIN clean_data |-> clean_data[i].v[c].num]
        Q1 == Quantile4(vals, 1)
        Q3 == Quantile4(vals, 3)
        IQR == Q3 - Q1
    IN  IF Len(clean_data) > 0
        THEN {clean_data[i].idx : i \in
                {j \in DOMAIN clean_data :
                    4 * vals[j] <= Q1 - 3 * IQR \/ 4 * vals[j] >= Q3 + 3 * IQR}}
        ELSE {}

\* _check_outliers, lines 136-148, for one column: the index labels of
\* the values outside the fences (the quartiles are carried times four)
ColumnOutliers(d, c) ==
    LET clean_data == DropNa(d, c)
        vals == [i \in DOMAIN clean_data |-> clean_data[i].v[c].num]
        Q1 == Quantile4(vals, 1)
        Q3 == Quantile4(vals, 3)
        IQR == Q3 - Q1
        lower_bound == Q1 - 3 * IQR
        upper_bound == Q3 + 3 * IQR
    IN  IF Len(clean_data) > 0
        THEN {clean_data[i].idx : i \in
                {j \in DOMAIN clean_data :
                    4 * vals[j] < lower_bound \/ 4 * vals[j] > upper_bound}}
        ELSE {}

\* the warnings of _check_outliers, lines 150-154, in column order
OutlierWarnings(o) ==
    LET Warn(c) == IF o[c] # {} THEN <<"outliers_found">> ELSE <<>>
    IN  Warn(numeric_columns[1]) \o Warn(numeric_columns[2]) \o Warn(numeric_columns[3])

\* a _check_outliers that also removes the rows it reports
CheckOutliersRemoves ==
    /\ pc = "check_outliers"
    /\ outliers' = [c \in Range(numeric_columns) |-> ColumnOutliers(data, c)]
    /\ data' = [data EXCEPT !.rows = SelectSeq(data.rows,
            LAMBDA r : \A c \in Range(numeric_columns) : r.idx \notin outliers'[c])]
    /\ log' = log \o OutlierWarnings(outliers')
    /\ pc' = "filter_by_date"
    /\ UNCHANGED <<env, others, view, err, summary, ret, pdata, psummary, result>>

\* _check_outliers, lines 129-154
CheckOutliers ==
    /\ pc = "check_outliers"
    /\ outliers' = [c \in Range(numeric_columns) |-> ColumnOutliers(data, c)]
    /\ log' = log \o OutlierWarnings(outliers')
    /\ pc' = "filter_by_date"
    /\ UNCHANGED <<env, others, view, data, err, summary, ret, pdata, psummary, result>>

(***************************************************************************)
(* load_data, last part: the date filter and the return.                   *)
(***************************************************************************)
\* pd.to_datetime of a configured date string
BoundValue(s) == DateValue[s]

\* a lower-bound comparison turned around
OnOrAfterReversed(c, t) == c.kind = "ts" /\ c.num <= t

\* comparisons of a timestamp cell with a bound; NaT compares false
OnOrAfter(c, t) == c.kind = "ts" /\ c.num >= t
OnOrBefore(c, t) == c.kind = "ts" /\ c.num <= t

\* _filter_by_date, lines 158-161
FilterStart(d) ==
    IF Truthy(start_date)
    THEN [d EXCEPT !.rows = SelectSeq(d.rows,
            LAMBDA r : OnOrAfter(r.v["Transaction Date"], BoundValue(start_date)))]
    ELSE d

\* _filter_by_date, lines 163-166
FilterEnd(d) ==
    IF Truthy(end_date)
    THEN [d EXCEPT !.rows = SelectSeq(d.rows,
            LAMBDA r : OnOrBefore(r.v["Transaction Date"], BoundValue(end_date)))]
    ELSE d

FilterLog ==
    (IF Truthy(start_date) THEN <<"filtered_from">> ELSE <<>>)
    \o (IF Truthy(end_date) THEN <<"filtered_until">> ELSE <<>>)

\* load_data, lines 66-71: the optional date filter, then the return
FilterByDate ==
    /\ pc = "filter_by_date"
    /\ data' = IF Truthy(start_date) \/ Truthy(end_date)
               THEN FilterEnd(FilterStart(data))
               ELSE data
    /\ log' = log \o FilterLog \o <<"successfully_loaded">>
    /\ pc' = "get_data_summary"
    /\ UNCHANGED <<env, others, view, err, outliers, summary, ret, pdata, psummary, result>>

(***************************************************************************)
(* get_data_summary.                                                       *)
(***************************************************************************)
Column(d, c) == [i \in DOMAIN d.rows |-> d.rows[i].v[c]]

RECURSIVE SumSeq(_)
SumSeq(s) == IF s = <<>> THEN 0 ELSE Head(s) + SumSeq(Tail(s))

\* a sum that any missing value voids
SeriesSumPoisoned(col) ==
    IF \E i \in DOMAIN col : col[i].kind # "num" THEN 0
    ELSE SumSeq([i \in DOMAIN col |-> col[i].num])

\* Series.sum(): missing values are skipped, an empty sum is 0
SeriesSum(col) ==
    SumSeq([i \in DOMAIN col |-> IF col[i].kind = "num" THEN col[i].num ELSE 0])

\* Series.min() / Series.max() of a timestamp column: NaT is skipped, and
\* NaT is the result when nothing is left
SeriesMin(col) ==
    LET present == {col[i].num : i \in {j \in DOMAIN col : col[j].kind = "ts"}}
    IN  IF present = {} THEN NaN
        ELSE Ts(CHOOSE m \in present : \A x \in present : m <= x)

SeriesMax(col) ==
    LET present == {col[i].num : i \in {j \in DOMAIN col : col[j].kind = "ts"}}
    IN  IF present = {} THEN NaN
        ELSE Ts(CHOOSE m \in present : \A x \in present : m >= x)

\* Series.nunique(): the distinct values present
NUnique(col) == Cardinality({col[i] : i \in {j \in DOMAIN col : ~IsNull(col[j])}})

\* Series.value_counts().to_dict(): value -> count, missing values left out
ValueCounts(col) ==
    LET keys == {col[i].txt : i \in {j \in DOMAIN col : ~IsNull(col[j])}}
    IN  [k \in keys |-> Cardinality({i \in DOMAIN col : ~IsNull(col[i]) /\ col[i].txt = k})]

\* DataFrame.isnull().sum().to_dict(): column -> number of missing values
MissingValues(d) ==
    [c \in d.columns |-> Cardinality({i \in DOMAIN d.rows : IsNull(d.rows[i].v[c])})]

\* get_data_summary, lines 178-190
Summary(d) ==
    [isNone |-> FALSE,
     total_records |-> Len(d.rows),
     date_range |-> [start |-> SeriesMin(Column(d, "Transaction Date")),
                     end |-> SeriesMax(Column(d, "Transaction Date"))],
     total_sales |-> SeriesSum(Column(d, "Total Spent")),
     unique_items |-> NUnique(Column(d, "Item")),
     unique_locations |-> NUnique(Column(d, "Location")),
     payment_methods |-> ValueCounts(Column(d, "Payment Method")),
     missing_values |-> MissingValues(d)]

\* a get_data_summary that refuses a dataset without records
GetDataSummaryRejectsEmpty ==
    /\ pc = "get_data_summary"
    /\ IF data.rows = <<>>
       THEN /\ Raise(Error("ValueError", "empty", {}))
            /\ UNCHANGED <<summary, ret>>
       ELSE /\ summary' = Summary(data)
            /\ ret' = [isNone |-> FALSE, data |-> data, summary |-> summary']
            /\ pc' = "returned"
            /\ UNCHANGED <<err, log>>
    /\ UNCHANGED <<env, others, view, data, outliers, pdata, psummary, result>>

\* load_cafe_data, lines 224-226: the summary of the loaded data, and the
\* pair handed to the caller
GetDataSummary ==
    /\ pc = "get_data_summary"
    /\ summary' = Summary(data)
    /\ ret' = [isNone |-> FALSE, data |-> data, summary |-> summary']
    /\ pc' = "returned"
    /\ UNCHANGED <<env, others, view, data, err, outliers, log, pdata, psummary, result>>

(***************************************************************************)
(* CafeAnalysisPipeline.run_data_loading.                                  *)
(***************************************************************************)
\* run_data_loading, lines 51-53: the pair is stored and True returned
RunDataLoadingOk ==
    /\ pc = "returned"
    /\ pdata' = ret.data
    /\ psummary' = ret.summary
    /\ result' = "True"
    /\ pc' = "done"
    /\ UNCHANGED <<env, others, view, data, err, outliers, log, summary, ret>>

\* a run_data_loading that keeps what the loader held when it failed
RunDataLoadingFailedKeepsData ==
    /\ pc = "raised"
    /\ result' = "False"
    /\ pdata' = data
    /\ log' = Append(log, "data_loading_failed")
    /\ pc' = "done"
    /\ UNCHANGED <<env, others, view, data, err, outliers, summary, ret, psummary>>

\* run_data_loading, lines 54-56: the exception is logged and False returned
RunDataLoadingFailed ==
    /\ pc = "raised"
    /\ result' = "False"
    /\ log' = Append(log, "data_loading_failed")
    /\ pc' = "done"
    /\ UNCHANGED <<env, others, view, data, err, outliers, summary, ret, pdata, psummary>>

Next ==
    \/ CheckPath
    \/ ReadCsv
    \/ ValidateData
    \/ ValidateDataTypes
    \/ CheckOutliers
    \/ FilterByDate
    \/ GetDataSummary
    \/ RunDataLoadingOk
    \/ RunDataLoadingFailed

Spec == Init /\ [][Next]_vars

(***************************************************************************)
(* The analysis that follows a load: the date filter applied again under   *)
(* changed bounds, and the tables the chart methods prepare from the       *)
(* pipeline's data.                                                        *)
(***************************************************************************)
MaxAnalysisRows == 3
MaxMenu == 16

\* product_performance_chart, line 207: head(15)
TopProducts == 15

\* the items of a long menu
MenuItems ==
    << "Americano", "Bagel", "Brownie", "Cappuccino", "Cookie", "Croissant",
       "Espresso", "Juice", "Latte", "Mocha", "Muffin", "Salad", "Sandwich",
       "Scone", "Smoothie", "Toast", "Waffle", "Wrap" >>

MenuTotals == <<"1", "2", "5", "10">>

\* a clean file of n records, each selling another item of the menu
MenuFile(n) ==
    CsvFile(AllColumns,
        [i \in 1..n |->
            CsvRow("TXN_M", "2023-01-01", MenuItems[i], "1",
                   MenuTotals[((i - 1) % 4) + 1], MenuTotals[((i - 1) % 4) + 1],
                   "Cash", "In-store")])

\* two records of one calendar date, at different times of day
SameDayFile ==
    CsvFile(AllColumns,
        << CsvRow("TXN_A", "2023-01-02", "Coffee", "2", "5", "10", "Cash", "In-store"),
           CsvRow("TXN_B", "2023-01-02 15:00", "Cake", "1", "15", "15", "Card", "In-store") >>)

AnalysisFiles ==
    {CsvFile(AllColumns, rows) : rows \in SeqsUpTo(Catalogue, MaxAnalysisRows)}
    \cup {MenuFile(n) : n \in 1..MaxMenu}
    \cup {SameDayFile}

\* the configured file exists and holds records with every column
InitAnalysis ==
    /\ file_path = input_file
    /\ exists = TRUE
    /\ file \in AnalysisFiles
    /\ start_date \in DateBounds
    /\ end_date \in DateBounds
    /\ Fresh
    /\ Elsewhere

\* the configuration's date bounds are assigned anew
Reconfigure ==
    /\ pc = "done"
    /\ result = "True"
    /\ start_date' \in {None} \cup DOMAIN DateValue
    /\ end_date' \in {None} \cup DOMAIN DateValue
    /\ interval' = [start |-> start_date, end |-> end_date]
    /\ pc' = "reconfigured"
    /\ UNCHANGED <<file_path, exists, file, others, view, data, err, outliers, log,
                   summary, ret, pdata, psummary, result>>

\* a _filter_by_date that drops the rows from the frame it was given
FilterAgainInPlace ==
    /\ pc = "reconfigured"
    /\ data' = FilterEnd(FilterStart(data))
    /\ pdata' = data'
    /\ log' = log \o FilterLog
    /\ pc' = "refiltered"
    /\ UNCHANGED <<env, others, view, err, outliers, summary, ret, psummary, result>>

\* _filter_by_date, lines 156-166, on the data the loader holds: self.data
\* is bound to a new frame, the frame returned earlier stays as it was
FilterAgain ==
    /\ pc = "reconfigured"
    /\ data' = FilterEnd(FilterStart(data))
    /\ log' = log \o FilterLog
    /\ pc' = "refiltered"
    /\ UNCHANGED <<env, others, view, err, outliers, summary, ret, pdata, psummary, result>>

\* Series.dt.date: the calendar date of a timestamp
DateName == <<"2023-01-01", "2023-01-02", "2023-01-03">>
DateOf(t) == DateName[t \div 24]

\* the grouping key of a record: a column, or the date of the timestamp
GroupKey(r, by) ==
    IF by = "Date"
    THEN IF r.v["Transaction Date"].kind = "ts"
         THEN Str(DateOf(r.v["Transaction Date"].num))
         ELSE NaN
    ELSE r.v[by]

\* a groupby that keeps the missing key as a group of its own (dropna=False)
GroupKeysWithMissing(d, by) ==
    {GroupKey(d.rows[i], by).txt : i \in DOMAIN d.rows}

\* DataFrame.groupby(by): the keys, records with a missing key left out
GroupKeys(d, by) ==
    {GroupKey(d.rows[i], by).txt :
        i \in {j \in DOMAIN d.rows : ~IsNull(GroupKey(d.rows[j], by))}}

\* the rows of the group of key k
Group(d, by, k) ==
    {i \in DOMAIN d.rows :
        ~IsNull(GroupKey(d.rows[i], by)) /\ GroupKey(d.rows[i], by).txt = k}

\* the values present in column c among the rows G
PresentIn(d, c, G) == {i \in G : d.rows[i].v[c].kind = "num"}

RECURSIVE SumRows(_, _, _)
\* 'sum' of column c over the rows G: missing values skipped, 0 when none
SumRows(d, c, G) ==
    IF PresentIn(d, c, G) = {} THEN 0
    ELSE LET i == CHOOSE j \in PresentIn(d, c, G) : TRUE
         IN  d.rows[i].v[c].num + SumRows(d, c, G \ {i})

\* a count of the rows of the group, whether or not the value is present
CountRowsAll(d, c, G) == Cardinality(G)

\* 'count' of column c over the rows G: the values present
CountRows(d, c, G) == Cardinality(PresentIn(d, c, G))

\* 'mean' as a fraction num/den; missing when no value is present
Mean(sum, count) ==
    IF count = 0 THEN [isNaN |-> TRUE, num |-> 0, den |-> 1]
    ELSE [isNaN |-> FALSE, num |-> sum, den |-> count]

\* .round(2) of a mean: hundredths, a tie going to the even neighbour
Round2(m) ==
    IF m.isNaN THEN m
    ELSE LET q == (100 * m.num) \div m.den
             r == (100 * m.num) % m.den
         IN  [isNaN |-> FALSE,
              num |-> IF 2 * r < m.den \/ (2 * r = m.den /\ q % 2 = 0)
                      THEN q ELSE q + 1,
              den |-> 100]

\* 'nunique' of column c over the rows G
NUniqueRows(d, c, G) ==
    Cardinality({d.rows[i].v[c] : i \in {j \in G : ~IsNull(d.rows[j].v[c])}})

\* the subsets of S with k elements
RECURSIVE SubsetsOfSize(_, _)
SubsetsOfSize(S, k) ==
    IF k = 0 THEN {{}}
    ELSE UNION {{T \cup {x} : T \in SubsetsOfSize(S \ {x}, k - 1)} : x \in S}

\* sort_values(col, ascending=False).head(n): the key sets that can come
\* first, rows of equal value in either order
Heads(rows, col, n) ==
    IF Cardinality(DOMAIN rows) <= n THEN {DOMAIN rows}
    ELSE {DOMAIN rows \ D : D \in
            {E \in SubsetsOfSize(DOMAIN rows, Cardinality(DOMAIN rows) - n) :
                \A e \in E : \A k \in DOMAIN rows \ E : rows[e][col] <= rows[k][col]}}

\* the charts are made from the data the pipeline holds
CanChart == pc \in {"done", "charted"} /\ result = "True"

\* sales_trend_chart, lines 133-136
SalesTrendChart ==
    /\ CanChart
    /\ view' = [name |-> "sales_trend",
                rows |-> [k \in GroupKeys(pdata, "Date") |->
                    LET G == Group(pdata, "Date", k)
                    IN  [sum |-> SumRows(pdata, "Total Spent", G),
                         count |-> CountRows(pdata, "Total Spent", G),
                         mean |-> Mean(SumRows(pdata, "Total Spent", G),
                                       CountRows(pdata, "Total Spent", G))]]]
    /\ pc' = "charted"
    /\ UNCHANGED <<env, others, data, err, outliers, log, summary, ret, pdata, psummary, result>>

\* product_performance_chart, lines 200-205, before the sort
ProductStats(d) ==
    [k \in GroupKeys(d, "Item") |->
        LET G == Group(d, "Item", k)
        IN  [Revenue |-> SumRows(d, "Total Spent", G),
             Transactions |-> CountRows(d, "Total Spent", G),
             Avg_Price |-> Round2(Mean(SumRows(d, "Total Spent", G),
                                       CountRows(d, "Total Spent", G))),
             Units_Sold |-> SumRows(d, "Quantity", G)]]

\* product_performance_chart, lines 200-207
ProductPerformanceChart ==
    /\ CanChart
    /\ \E kept \in Heads(ProductStats(pdata), "Revenue", TopProducts) :
          view' = [name |-> "product_performance",
                   rows |-> Restrict(ProductStats(pdata), kept)]
    /\ pc' = "charted"
    /\ UNCHANGED <<env, others, data, err, outliers, log, summary, ret, pdata, psummary, result>>

\* location_analysis_chart, lines 362-368
LocationAnalysisChart ==
    /\ CanChart
    /\ view' = [name |-> "location_analysis",
                rows |-> [k \in GroupKeys(pdata, "Location") |->
                    LET G == Group(pdata, "Location", k)
                    IN  [Revenue |-> SumRows(pdata, "Total Spent", G),
                         Transactions |-> CountRows(pdata, "Total Spent", G),
                         Avg_Transaction |->
                             Round2(Mean(SumRows(pdata, "Total Spent", G),
                                         CountRows(pdata, "Total Spent", G))),
                         Unique_Items |-> NUniqueRows(pdata, "Item", G)]]]
    /\ pc' = "charted"
    /\ UNCHANGED <<env, others, data, err, outliers, log, summary, ret, pdata, psummary, result>>

\* payment_method_chart, lines 471-476: the table
PaymentStats(d) ==
    [k \in GroupKeys(d, "Payment Method") |->
        LET G == Group(d, "Payment Method", k)
        IN  [Revenue |-> SumRows(d, "Total Spent", G),
             Transactions |-> CountRows(d, "Total Spent", G),
             Avg_Transaction |->
                 Round2(Mean(SumRows(d, "Total Spent", G),
                             CountRows(d, "Total Spent", G)))]]

\* payment_method_chart, lines 471-476
PaymentMethodChart ==
    /\ CanChart
    /\ view' = [name |-> "payment_methods", rows |-> PaymentStats(pdata)]
    /\ pc' = "charted"
    /\ UNCHANGED <<env, others, data, err, outliers, log, summary, ret, pdata, psummary, result>>

\* time_heatmap, line 324
day_order ==
    <<"Monday", "Tuesday", "Wednesday", "Thursday", "Friday", "Saturday", "Sunday">>

\* Series.dt.day_name() and Series.dt.hour; 2023-01-01 is a Sunday
DayNameOf(t) == day_order[(((t \div 24) + 5) % 7) + 1]
HourOf(t) == t % 24

\* time_heatmap, lines 311-312: the frame it was given gets two columns
WithDayAndHour(d) ==
    IF d.isNone THEN d
    ELSE [d EXCEPT
            !.columns = @ \cup {"Day_of_Week", "Hour"},
            !.rows = [i \in DOMAIN @ |->
                LET ts == @[i].v["Transaction Date"]
                IN  [@[i] EXCEPT !.v =
                        [c \in d.columns \cup {"Day_of_Week", "Hour"} |->
                            CASE c = "Day_of_Week" ->
                                    IF ts.kind = "ts" THEN Str(DayNameOf(ts.num)) ELSE NaN
                              [] c = "Hour" ->
                                    IF ts.kind = "ts" THEN Num(HourOf(ts.num)) ELSE NaN
                              [] OTHER -> @[c]]]]]

\* the rows of d on day dn at hour h
AtDayHour(d, dn, h) ==
    {i \in DOMAIN d.rows :
        /\ d.rows[i].v["Day_of_Week"] = Str(dn)
        /\ d.rows[i].v["Hour"] = Num(h)}

\* the hours, and the days, some row of d falls on
HoursIn(d) ==
    {d.rows[i].v["Hour"].num : i \in {j \in DOMAIN d.rows : d.rows[j].v["Hour"].kind = "num"}}
DaysIn(d) ==
    {d.rows[i].v["Day_of_Week"].txt :
        i \in {j \in DOMAIN d.rows : d.rows[j].v["Day_of_Week"].kind = "str"}}

\* time_heatmap, lines 315-325: pivot_table(..., aggfunc='sum', fill_value=0)
\* has a row per day and a column per hour found in the data, 0 where the
\* two never meet; reindex(day_order) adds the other days as rows of NaN
HeatmapData(d) ==
    [dn \in Range(day_order) |->
        [h \in HoursIn(d) |->
            IF dn \in DaysIn(d)
            THEN [isNaN |-> FALSE, sum |-> SumRows(d, "Total Spent", AtDayHour(d, dn, h))]
            ELSE [isNaN |-> TRUE, sum |-> 0]]]

\* time_heatmap, lines 309-325; the pipeline's frame is the loader's
TimeHeatmap ==
    /\ CanChart
    /\ pdata' = WithDayAndHour(pdata)
    /\ data' = WithDayAndHour(data)
    /\ view' = [name |-> "time_heatmap", rows |-> HeatmapData(pdata')]
    /\ pc' = "charted"
    /\ UNCHANGED <<env, others, err, outliers, log, summary, ret, psummary, result>>

\* get_data_summary, lines 168-192, called again after the load
SummaryAgain ==
    /\ CanChart
    /\ psummary' = Summary(pdata)
    /\ pc' = "summarised"
    /\ UNCHANGED <<env, others, view, data, err, outliers, log, summary, ret, pdata, result>>

\* create_all_charts, lines 572-578: the keys of the dictionary it returns
ViewNames ==
    {"sales_trend", "product_performance", "time_heatmap", "location_analysis",
     "payment_methods"}

\* create_all_charts(data)[name]: the five charts are made in turn, the
\* last of them the payment chart, and the dictionary is asked for one
ChartByName ==
    /\ CanChart
    /\ \E name \in ViewNames \cup {"not_a_view"} :
          lookup' = [name |-> name,
                     error |-> IF name \in ViewNames THEN None ELSE "KeyError"]
    /\ pdata' = WithDayAndHour(pdata)
    /\ data' = WithDayAndHour(data)
    /\ view' = [name |-> "payment_methods", rows |-> PaymentStats(pdata')]
    /\ pc' = "looked_up"
    /\ UNCHANGED <<env, call, cli, dash, cfg, err, outliers, log, summary, ret, psummary, result>>

(***************************************************************************)
(* The loader's other public methods, called before a load or after one    *)
(* that failed or succeeded.                                               *)
(***************************************************************************)
\* the files of these calls: every header, few records
CallFiles ==
    {CsvFile(AllColumns, rows) : rows \in SeqsUpTo(Catalogue, MaxPartialRows)}
    \cup
    {CsvFile(h, rows) : h \in PartialHeaders, rows \in SeqsUpTo(Catalogue, MaxPartialRows)}

InitCalls ==
    /\ file_path = input_file
    /\ exists \in BOOLEAN
    /\ file \in (IF exists THEN CallFiles ELSE {NoFile})
    /\ start_date = None
    /\ end_date = None
    /\ Fresh
    /\ Elsewhere

\* the loader is between loads: none begun, or one raised or returned
BetweenLoads == pc \in {"load_data", "raised", "done"}

\* get_data_summary, lines 178-190: the columns it reads
summary_columns ==
    {"Transaction Date", "Total Spent", "Item", "Location", "Payment Method"}

\* a reduction (sum, min, max) over an object column that holds both
\* strings and missing values adds or compares a str and a float
MixedObject(col) ==
    /\ \E i \in DOMAIN col : col[i].kind = "str"
    /\ \E i \in DOMAIN col : col[i].kind = "nan"

\* what get_data_summary, lines 175-190, raises on the frame d
SummaryError(d) ==
    IF d.isNone THEN "ValueError"
    ELSE IF ~(summary_columns \subseteq d.columns) THEN "KeyError"
    ELSE IF MixedObject(Column(d, "Transaction Date"))
              \/ MixedObject(Column(d, "Total Spent")) THEN "TypeError"
    ELSE None

\* DataLoader.get_data_summary(), lines 168-192
CallGetDataSummary ==
    /\ BetweenLoads
    /\ call' = [op |-> "get_data_summary", error |-> SummaryError(data)]
    /\ pc' = "called"
    /\ UNCHANGED <<env, lookup, cli, dash, cfg, view, data, err, outliers, log,
                   summary, ret, pdata, psummary, result>>

\* DataLoader.save_processed_data(), lines 194-209
CallSaveProcessedData ==
    /\ BetweenLoads
    /\ call' = [op |-> "save_processed_data",
                error |-> IF data.isNone THEN "ValueError" ELSE None]
    /\ pc' = "called"
    /\ UNCHANGED <<env, lookup, cli, dash, cfg, view, data, err, outliers, log,
                   summary, ret, pdata, psummary, result>>

NextCalls ==
    \/ Next
    \/ CallGetDataSummary
    \/ CallSaveProcessedData

SpecCalls == InitCalls /\ [][NextCalls]_vars

(***************************************************************************)
(* main(): the command line, run_full_pipeline and the other modes, the    *)
(* exit status.                                                            *)
(***************************************************************************)
\* the files of a command-line run
CliFiles == {CsvFile(AllColumns, rows) : rows \in SeqsUpTo(Catalogue, MaxPartialRows)}

\* main() is entered with its arguments parsed; whether saving the charts
\* and rendering the dashboard will work is the environment's
InitCli ==
    /\ file_path = input_file
    /\ exists \in BOOLEAN
    /\ file \in (IF exists THEN CliFiles ELSE {NoFile})
    /\ start_date \in DateBounds
    /\ end_date \in DateBounds
    /\ pc = "main"
    /\ FreshObjects
    /\ lookup = NoLookup
    /\ call = NoCall
    /\ dash = NoDash
    /\ cfg = NoCfg
    /\ \E full, visualize, dashboard, viz_ok, render_ok \in BOOLEAN :
          cli = [mode |-> IF full THEN "full"
                          ELSE IF visualize THEN "visualize"
                          ELSE IF dashboard THEN "dashboard"
                          ELSE "default",
                 show_dashboard |-> full /\ dashboard,
                 viz_ok |-> viz_ok,
                 render_ok |-> render_ok,
                 stage |-> "main",
                 steps |-> <<>>,
                 failed |-> {},
                 returned |-> None,
                 success |-> None,
                 interrupted |-> FALSE,
                 status |-> None]

\* main, lines 241-262: the mode decides what is called first; every mode
\* but --dashboard starts with run_data_loading, and the dashboard starts
\* with its own load_data, which wraps load_cafe_data in the same way
MainDispatch ==
    /\ pc = "main"
    /\ cli.stage = "main"
    /\ cli' = [cli EXCEPT
            !.stage = IF cli.mode = "dashboard" THEN "dashboard_loading" ELSE "loading",
            !.steps = IF cli.mode = "dashboard" THEN <<"dashboard">> ELSE <<"data_loading">>]
    /\ pc' = "load_data"
    /\ UNCHANGED <<env, lookup, call, dash, cfg, view, data, err, outliers, log,
                   summary, ret, pdata, psummary, result>>

\* run_full_pipeline runs in the modes --full and default
RunsFullPipeline == cli.mode \in {"full", "default"}

\* run_full_pipeline, lines 150-151, and main, lines 250-254: a failed
\* load ends the run
AfterDataLoading ==
    /\ cli.stage = "loading"
    /\ pc = "done"
    /\ cli' = IF result = "True"
              THEN [cli EXCEPT !.stage = "print_summary"]
              ELSE [cli EXCEPT !.stage = "exit",
                               !.failed = @ \cup {"data_loading"},
                               !.success = "False",
                               !.returned = IF RunsFullPipeline THEN "False" ELSE @]
    /\ UNCHANGED <<env, lookup, call, dash, cfg, pc, view, data, err, outliers, log,
                   summary, ret, pdata, psummary, result>>

\* print_summary, lines 118-119: strftime of the date range, which raises
\* ValueError on NaT
PrintSummaryRaises ==
    IsNull(psummary.date_range.start) \/ IsNull(psummary.date_range.end)

\* print_summary, lines 102-134; nothing between it and main catches
PrintSummary ==
    /\ cli.stage = "print_summary"
    /\ cli' = IF PrintSummaryRaises
              THEN [cli EXCEPT !.steps = Append(@, "print_summary"),
                               !.failed = @ \cup {"print_summary"},
                               !.stage = "unexpected"]
              ELSE [cli EXCEPT !.steps = Append(@, "print_summary"),
                               !.stage = "visualization"]
    /\ UNCHANGED <<env, lookup, call, dash, cfg, pc, view, data, err, outliers, log,
                   summary, ret, pdata, psummary, result>>

\* run_visualization, lines 58-84: the five charts are made and saved, or
\* an exception is caught and False returned
RunVisualization ==
    /\ cli.stage = "visualization"
    /\ IF cli.viz_ok
       THEN /\ pdata' = WithDayAndHour(pdata)
            /\ data' = WithDayAndHour(data)
            /\ view' = [name |-> "payment_methods", rows |-> PaymentStats(pdata')]
            /\ cli' = IF cli.show_dashboard
                      THEN [cli EXCEPT !.steps = Append(@, "visualization"),
                                       !.stage = "dashboard"]
                      ELSE [cli EXCEPT !.steps = Append(@, "visualization"),
                                       !.stage = "exit",
                                       !.success = "True",
                                       !.returned = IF RunsFullPipeline THEN "True" ELSE @]
       ELSE /\ \E reached \in BOOLEAN :
                  /\ pdata' = IF reached THEN WithDayAndHour(pdata) ELSE pdata
                  /\ data' = IF reached THEN WithDayAndHour(data) ELSE data
            /\ view' = view
            /\ cli' = [cli EXCEPT !.steps = Append(@, "visualization"),
                                  !.failed = @ \cup {"visualization"},
                                  !.stage = "exit",
                                  !.success = "False",
                                  !.returned = IF RunsFullPipeline THEN "False" ELSE @]
    /\ UNCHANGED <<env, lookup, call, dash, cfg, pc, err, outliers, log,
                   summary, ret, psummary, result>>

\* run_dashboard, lines 86-100, inside run_full_pipeline: the dashboard
\* loads the file the pipeline loaded and renders; an exception is caught
\* and False returned
RunDashboard ==
    /\ cli.stage = "dashboard"
    /\ cli' = IF cli.render_ok
              THEN [cli EXCEPT !.steps = Append(@, "dashboard"),
                               !.stage = "exit",
                               !.success = "True",
                               !.returned = "True"]
              ELSE [cli EXCEPT !.steps = Append(@, "dashboard"),
                               !.failed = @ \cup {"dashboard"},
                               !.stage = "exit",
                               !.success = "False",
                               !.returned = "False"]
    /\ UNCHANGED <<env, lookup, call, dash, cfg, pc, view, data, err, outliers, log,
                   summary, ret, pdata, psummary, result>>

\* run_dashboard, lines 86-100, in --dashboard mode, after the dashboard's
\* load_data: CafeDashboard.run returns early when the load failed, and
\* run_dashboard returns True; otherwise the dashboard renders
DashboardAfterLoading ==
    /\ cli.stage = "dashboard_loading"
    /\ pc = "done"
    /\ cli' = IF result = "False"
              THEN [cli EXCEPT !.failed = @ \cup {"data_loading"},
                               !.stage = "exit",
                               !.success = "True"]
              ELSE IF cli.render_ok
              THEN [cli EXCEPT !.stage = "exit", !.success = "True"]
              ELSE [cli EXCEPT !.failed = @ \cup {"dashboard"},
                               !.stage = "exit",
                               !.success = "False"]
    /\ UNCHANGED <<env, lookup, call, dash, cfg, pc, view, data, err, outliers, log,
                   summary, ret, pdata, psummary, result>>

\* main, lines 264-269: sys.exit(0) on success, sys.exit(1) otherwise
Exit ==
    /\ cli.stage = "exit"
    /\ cli' = [cli EXCEPT !.stage = "exited",
                          !.status = IF cli.success = "True" THEN "0" ELSE "1"]
    /\ UNCHANGED <<env, lookup, call, dash, cfg, pc, view, data, err, outliers, log,
                   summary, ret, pdata, psummary, result>>

\* main, lines 274-276: an exception that escaped the steps
ExitUnexpected ==
    /\ cli.stage = "unexpected"
    /\ cli' = [cli EXCEPT !.stage = "exited", !.status = "1"]
    /\ UNCHANGED <<env, lookup, call, dash, cfg, pc, view, data, err, outliers, log,
                   summary, ret, pdata, psummary, result>>

\* main, lines 271-273: KeyboardInterrupt, which no step catches
Interrupt ==
    /\ cli.stage \notin {"main", "exit", "unexpected", "exited"}
    /\ cli' = [cli EXCEPT !.stage = "exited", !.interrupted = TRUE, !.status = "0"]
    /\ pc' = "interrupted"
    /\ UNCHANGED <<env, lookup, call, dash, cfg, view, data, err, outliers, log,
                   summary, ret, pdata, psummary, result>>

NextCli ==
    \/ Next
    \/ MainDispatch
    \/ AfterDataLoading
    \/ PrintSummary
    \/ RunVisualization
    \/ RunDashboard
    \/ DashboardAfterLoading
    \/ Exit
    \/ ExitUnexpected
    \/ Interrupt

SpecCli == InitCli /\ [][NextCli]_vars

(***************************************************************************)
(* CafeDashboard: one run of the script per interaction; load_data, the    *)
(* sidebar filters, the time analysis tab.                                 *)
(***************************************************************************)
MaxDashRows == 2

\* the files the dashboard is opened on
DashFiles == {CsvFile(AllColumns, rows) : rows \in SeqsUpTo(Catalogue, MaxDashRows)}

\* the first entry of every selectbox
All == Str("All")

\* CafeDashboard.__init__, lines 96-102, with the sidebar untouched
NewDash ==
    [isNone |-> FALSE,
     stage |-> "constructed",
     data |-> NoData,
     filtered_data |-> NoData,
     date_range |-> <<>>,
     location |-> All,
     payment |-> All,
     product |-> All,
     reset |-> FALSE]

\* the script starts: a CafeDashboard is constructed and run() calls
\* load_data, which calls load_cafe_data
InitDashboard ==
    /\ file_path = input_file
    /\ exists \in BOOLEAN
    /\ file \in (IF exists THEN DashFiles ELSE {NoFile})
    /\ start_date = None
    /\ end_date = None
    /\ Fresh
    /\ lookup = NoLookup
    /\ call = NoCall
    /\ cli = NoCli
    /\ cfg = NoCfg
    /\ dash = NewDash

\* load_data, lines 105-115: the loaded frame and a copy of it, or False
\* after which run() returns
DashLoadData ==
    /\ dash.stage = "constructed"
    /\ pc = "done"
    /\ dash' = IF result = "True"
               THEN [dash EXCEPT !.data = pdata, !.filtered_data = pdata,
                                 !.stage = "loaded"]
               ELSE [dash EXCEPT !.stage = "load_failed"]
    /\ UNCHANGED <<env, lookup, call, cli, cfg, pc, view, data, err, outliers, log,
                   summary, ret, pdata, psummary, result>>

\* what st.sidebar.date_input can return for value=(min_date, max_date):
\* a pair of dates first <= start <= end <= last, or the start alone while
\* the end has not been picked
DateInputs(first, last) ==
    LET days == (first \div 24)..(last \div 24)
    IN  {<<DateName[p[1]], DateName[p[2]]>> : p \in {q \in days \X days : q[1] <= q[2]}}
        \cup {<<DateName[s]>> : s \in days}

\* the order of datetime.date values: the number of the day
DayNumber(date) == DateValue[date] \div 24

\* a date range that leaves the end date out
DateRangeFilterExclusive(d, dr) ==
    IF Len(dr) = 2
    THEN [d EXCEPT !.rows = SelectSeq(d.rows, LAMBDA r :
            LET c == r.v["Transaction Date"]
            IN  /\ c.kind = "ts"
                /\ DayNumber(DateOf(c.num)) >= DayNumber(dr[1])
                /\ DayNumber(DateOf(c.num)) < DayNumber(dr[2]))]
    ELSE d

\* render_sidebar_filters, lines 148-153: .dt.date compared with the two
\* dates picked; NaT compares false
DateRangeFilter(d, dr) ==
    IF Len(dr) = 2
    THEN [d EXCEPT !.rows = SelectSeq(d.rows, LAMBDA r :
            LET c == r.v["Transaction Date"]
            IN  /\ c.kind = "ts"
                /\ DayNumber(DateOf(c.num)) >= DayNumber(dr[1])
                /\ DayNumber(DateOf(c.num)) <= DayNumber(dr[2]))]
    ELSE d

\* Series.unique(): the values of a column, the missing value among them
Unique(d, c) == {d.rows[i].v[c] : i \in DOMAIN d.rows}

\* sorted(...) of strings and a NaN: TypeError
SortRaises(d, c) == NaN \in Unique(d, c) /\ Unique(d, c) # {NaN}

\* the entries of a selectbox, lines 157, 167, 177
Options(d, c) == {All} \cup Unique(d, c)

\* lines 160-163, 170-173, 180-183: the rows equal to the selected entry;
\* a missing value equals nothing
NarrowBy(f, c, sel) ==
    IF sel # All
    THEN [f EXCEPT !.rows = SelectSeq(f.rows, LAMBDA r :
            ~IsNull(r.v[c]) /\ r.v[c] = sel)]
    ELSE f

\* render_sidebar_filters, lines 132-188, with the entries the user has
\* picked. min().date() of a column without a timestamp, and sorted() of a
\* column that mixes strings and NaN, raise, and the widgets below are
\* not reached; the reset button copies data and calls st.rerun()
RenderSidebarFilters ==
    /\ dash.stage = "loaded"
    /\ LET d == dash.data
           first == SeriesMin(Column(d, "Transaction Date"))
           last == SeriesMax(Column(d, "Transaction Date"))
       IN  IF IsNull(first)
           THEN dash' = [dash EXCEPT !.stage = "error"]
           ELSE \E dr \in DateInputs(first.num, last.num) :
                LET f1 == DateRangeFilter(d, dr)
                IN  IF SortRaises(d, "Location")
                    THEN dash' = [dash EXCEPT !.date_range = dr, !.filtered_data = f1,
                                              !.stage = "error"]
                    ELSE \E loc \in Options(d, "Location") :
                LET f2 == NarrowBy(f1, "Location", loc)
                IN  IF SortRaises(d, "Payment Method")
                    THEN dash' = [dash EXCEPT !.date_range = dr, !.location = loc,
                                              !.filtered_data = f2, !.stage = "error"]
                    ELSE \E pay \in Options(d, "Payment Method") :
                LET f3 == NarrowBy(f2, "Payment Method", pay)
                IN  IF SortRaises(d, "Item")
                    THEN dash' = [dash EXCEPT !.date_range = dr, !.location = loc,
                                              !.payment = pay,
                                              !.filtered_data = f3, !.stage = "error"]
                    ELSE \E prod \in Options(d, "Item"), button \in BOOLEAN :
                LET f4 == NarrowBy(f3, "Item", prod)
                IN  dash' = [dash EXCEPT !.date_range = dr, !.location = loc,
                                         !.payment = pay, !.product = prod,
                                         !.reset = button,
                                         !.filtered_data = IF button THEN d ELSE f4,
                                         !.stage = IF button THEN "rerun" ELSE "filtered"]
    /\ UNCHANGED <<env, lookup, call, cli, cfg, pc, view, data, err, outliers, log,
                   summary, ret, pdata, psummary, result>>

\* render_time_analysis, line 262: time_heatmap adds its two columns to
\* the frame it is given, filtered_data
RenderTimeAnalysis ==
    /\ dash.stage = "filtered"
    /\ dash' = [dash EXCEPT !.filtered_data = WithDayAndHour(dash.filtered_data),
                            !.stage = "rendered"]
    /\ UNCHANGED <<env, lookup, call, cli, cfg, pc, view, data, err, outliers, log,
                   summary, ret, pdata, psummary, result>>

\* an interaction, or st.rerun(): the script runs again from the top, on a
\* new CafeDashboard and a new loader
Rerun ==
    /\ dash.stage \in {"rendered", "rerun", "error", "load_failed"}
    /\ dash' = NewDash
    /\ pc' = "load_data"
    /\ data' = NoData
    /\ err' = NoError
    /\ outliers' = [c \in Range(numeric_columns) |-> {}]
    /\ log' = <<>>
    /\ summary' = NoSummary
    /\ ret' = NoReturn
    /\ pdata' = NoData
    /\ psummary' = NoSummary
    /\ result' = None
    /\ UNCHANGED <<env, lookup, call, cli, cfg, view>>

NextDashboard ==
    \/ Next
    \/ DashLoadData
    \/ RenderSidebarFilters
    \/ RenderTimeAnalysis
    \/ Rerun

SpecDashboard == InitDashboard /\ [][NextDashboard]_vars

(***************************************************************************)
(* ConfigManager: the configuration file, _load_config, reload_config and  *)
(* get_config.                                                             *)
(***************************************************************************)
\* YAML's null
Null == [kind |-> "null", txt |-> "", num |-> 0]

\* the settings of the model, one of each kind of field: data.input_file
\* (str), analysis.start_date (Optional[str]), dashboard.refresh_interval
\* (int)
ConfigFields == {"input_file", "start_date", "refresh_interval"}

\* what a configuration file can say about a setting
YamlValues ==
    [input_file |-> {Str("sales_2023.csv"), Null},
     start_date |-> {Str("2023-01-02"), Null},
     refresh_interval |-> {Num(60), Str("60"), Str("soon")}]

\* the mappings a configuration file can hold: some settings, the others
\* left out
YamlMappings ==
    UNION {[F -> UNION {YamlValues[f] : f \in F}] : F \in SUBSET ConfigFields}

\* what is at config_path: nothing, a YAML mapping, an empty file, a YAML
\* list, or text that is not YAML
ConfigFiles ==
    {[kind |-> k, doc |-> <<>>] : k \in {"absent", "empty", "sequence", "malformed"}}
    \cup {[kind |-> "mapping", doc |-> m] :
            m \in {y \in YamlMappings : \A f \in DOMAIN y : y[f] \in YamlValues[f]}}

\* Config(): every setting at its default, lines 16-19, 24-25, 66-71
DefaultConfig ==
    [isNone |-> FALSE,
     input_file |-> input_file,
     start_date |-> None,
     refresh_interval |-> 300]

\* self._config = None, line 139
NoConfig == [isNone |-> TRUE]

\* the text of an int, as pydantic reads it
IntOfText == [s \in {"60"} |-> 60]

\* pydantic's validation of one setting's value: str takes a string,
\* Optional[str] a string or null, int an integer or its text
Accepts(f, y) ==
    CASE f = "input_file" -> y.kind = "str"
      [] f = "start_date" -> y.kind \in {"str", "null"}
      [] f = "refresh_interval" ->
            y.kind = "num" \/ (y.kind = "str" /\ y.txt \in DOMAIN IntOfText)

\* the validated value of a setting
Validated(f, y) ==
    CASE f = "input_file" -> y.txt
      [] f = "start_date" -> IF y.kind = "null" THEN None ELSE y.txt
      [] f = "refresh_interval" -> IF y.kind = "num" THEN y.num ELSE IntOfText[y.txt]

\* a _load_config that leaves _config unset when loading fails
LoadConfigNoFallback(disk) ==
    IF disk.kind = "absent" THEN DefaultConfig
    ELSE IF disk.kind # "mapping" THEN NoConfig
    ELSE IF \E f \in DOMAIN disk.doc : ~Accepts(f, disk.doc[f]) THEN NoConfig
    ELSE [f \in DOMAIN DefaultConfig |->
            IF f \in DOMAIN disk.doc THEN Validated(f, disk.doc[f]) ELSE DefaultConfig[f]]

\* _load_config, lines 142-154: a missing file gives Config(); yaml.safe_load
\* raises on text that is not YAML, Config(**config_data) raises TypeError
\* on None and on a list and ValidationError on a value its field rejects,
\* and the except branch gives Config(); otherwise the settings named in
\* the file take the file's values and the others their defaults
LoadConfig(disk) ==
    IF disk.kind = "absent" THEN DefaultConfig
    ELSE IF disk.kind # "mapping" THEN DefaultConfig
    ELSE IF \E f \in DOMAIN disk.doc : ~Accepts(f, disk.doc[f]) THEN DefaultConfig
    ELSE [f \in DOMAIN DefaultConfig |->
            IF f \in DOMAIN disk.doc THEN Validated(f, disk.doc[f]) ELSE DefaultConfig[f]]

\* a ConfigManager is about to be constructed
InitConfig ==
    /\ file_path = input_file
    /\ exists = FALSE
    /\ file = NoFile
    /\ start_date = None
    /\ end_date = None
    /\ Fresh
    /\ lookup = NoLookup
    /\ call = NoCall
    /\ cli = NoCli
    /\ dash = NoDash
    /\ \E disk \in ConfigFiles :
          cfg = [isNone |-> FALSE,
                 stage |-> "new",
                 disk |-> disk,
                 config |-> NoConfig,
                 reloaded |-> FALSE,
                 returned |-> NoConfig]

\* ConfigManager.__init__, lines 133-140
Construct ==
    /\ cfg.stage = "new"
    /\ cfg' = [cfg EXCEPT !.config = LoadConfig(cfg.disk), !.stage = "loaded"]
    /\ UNCHANGED <<env, lookup, call, cli, dash, pc, view, data, err, outliers, log,
                   summary, ret, pdata, psummary, result>>

\* the configuration file is written, replaced or removed
WriteConfigFile ==
    /\ cfg.stage \in {"loaded", "stale"}
    /\ \E disk \in ConfigFiles \ {cfg.disk} :
          cfg' = [cfg EXCEPT !.disk = disk, !.stage = "stale"]
    /\ UNCHANGED <<env, lookup, call, cli, dash, pc, view, data, err, outliers, log,
                   summary, ret, pdata, psummary, result>>

\* reload_config, lines 160-162
ReloadConfig ==
    /\ cfg.stage \in {"loaded", "stale"}
    /\ cfg' = [cfg EXCEPT !.config = LoadConfig(cfg.disk), !.stage = "loaded",
                          !.reloaded = TRUE]
    /\ UNCHANGED <<env, lookup, call, cli, dash, pc, view, data, err, outliers, log,
                   summary, ret, pdata, psummary, result>>

\* get_config, lines 156-158 and 204-207: _config is handed out
GetConfig ==
    /\ cfg.stage \in {"loaded", "stale"}
    /\ cfg' = [cfg EXCEPT !.returned = cfg.config]
    /\ UNCHANGED <<env, lookup, call, cli, dash, pc, view, data, err, outliers, log,
                   summary, ret, pdata, psummary, result>>

NextConfig ==
    \/ Construct
    \/ WriteConfigFile
    \/ ReloadConfig
    \/ GetConfig

SpecConfig == InitConfig /\ [][NextConfig]_vars

NextAnalysis ==
    \/ Next
    \/ Reconfigure
    \/ FilterAgain
    \/ SalesTrendChart
    \/ ProductPerformanceChart
    \/ LocationAnalysisChart
    \/ PaymentMethodChart
    \/ TimeHeatmap
    \/ SummaryAgain
    \/ ChartByName

SpecAnalysis == InitAnalysis /\ [][NextAnalysis]_vars

(***************************************************************************)
(* Properties.                                                             *)
(***************************************************************************)
\* load_cafe_data has handed a Dataset and a Summary to its caller
Returned == ~ret.isNone

\* load_data has raised
Failed == err.type # None

\* the rows of the file whose timestamp / total amount does not parse
BadTimestampRows ==
    {i \in DOMAIN file.rows : ~IsDateToken(file.rows[i]["Transaction Date"])}
BadTotalRows ==
    {i \in DOMAIN file.rows : ~IsNumericToken(file.rows[i]["Total Spent"])}

NoDateBounds == ~Truthy(start_date) /\ ~Truthy(end_date)

\* C1: every record of the Dataset a successful load returns has a
\* Transaction Date that is not missing (records whose timestamp failed to
\* parse have been removed).
C1_NoMissingTimestamp ==
    Returned =>
        \A i \in DOMAIN ret.data.rows :
            ~IsNull(ret.data.rows[i].v["Transaction Date"])

\* C2: when the header lacks required fields, load fails with an error that
\* carries exactly the set of required fields that are absent.
C2_ErrorNamesMissingFields ==
    (exists /\ required_columns \ file.header # {} /\ pc = "done") =>
        /\ result = "False"
        /\ err.type = "ValueError"
        /\ err.fields = required_columns \ file.header

\* the input of C3: a file with every required field and no record
EmptyInput == exists /\ required_columns \subseteq file.header /\ file.rows = <<>>

\* C3: an input with all seven required fields and zero records makes load
\* fail with ValueError "Data file is empty"; no Dataset is returned.
C3_EmptyDatasetFails ==
    EmptyInput =>
        /\ ~Returned
        /\ pc \in {"load_data", "read_csv", "validate", "raised", "done"}
        /\ pc \in {"raised", "done"} => err = Error("ValueError", "empty", {})
        /\ pc = "done" => result = "False"

C3_Witness == EmptyInput /\ pc = "done" /\ result = "False"

\* C4: when load fails (file not found, missing fields, empty dataset)
\* load_cafe_data hands nothing to its caller and the pipeline's data and
\* summary stay unset.
C4_FailureAbortsLoad ==
    Failed => /\ ~Returned
              /\ summary = NoSummary
              /\ pdata = NoData
              /\ psummary = NoSummary

\* a failed load whose loader holds the raw frame it read
C4_Witness ==
    /\ pc = "done"
    /\ result = "False"
    /\ err.kind = "missing_columns"
    /\ ~data.isNone
    /\ data.rows # <<>>

\* the input of C5: every timestamp parses and no date bound is configured
C5_Input == BadTimestampRows = {} /\ NoDateBounds

\* C5: with every timestamp parseable and no date bound, the returned
\* Dataset has the records of the raw input, as many and in the same order,
\* however many numeric values failed coercion.
C5_NumericDirtKeepsRecords ==
    (Returned /\ C5_Input) =>
        /\ Len(ret.data.rows) = Len(file.rows)
        /\ \A i \in DOMAIN file.rows :
              /\ ret.data.rows[i].idx = i - 1
              /\ ret.data.rows[i].v["Transaction ID"] = Str(file.rows[i]["Transaction ID"])

\* a returned Dataset with two records whose total amount failed coercion
C5_Witness ==
    /\ Returned
    /\ C5_Input
    /\ Cardinality(BadTotalRows) >= 2
    /\ Cardinality({i \in DOMAIN ret.data.rows :
                      IsNull(ret.data.rows[i].v["Total Spent"])}) >= 2

\* the stages of load that follow _validate_data_types
AfterCoercion ==
    pc \in {"check_outliers", "filter_by_date", "get_data_summary", "returned"}
    \/ (pc = "done" /\ result = "True")

\* C6: coercion yields a typed value or the missing marker for every raw
\* value and never makes load raise: load fails only for a missing file,
\* missing required fields or an empty dataset.
C6_CoercionTotal ==
    /\ AfterCoercion =>
          \A i \in DOMAIN data.rows :
              /\ \A c \in Range(numeric_columns) :
                    data.rows[i].v[c].kind \in {"num", "nan"}
              /\ data.rows[i].v["Transaction Date"].kind \in {"ts", "nan"}
    /\ Failed =>
          \/ ~exists
          \/ required_columns \ file.header # {}
          \/ file.rows = <<>>
    /\ (exists /\ required_columns \subseteq file.header /\ file.rows # <<>>
          /\ pc = "done") => result = "True"

\* a load that succeeded on a file with an unparseable timestamp and a
\* non-numeric quantity, both turned into the missing marker
C6_Witness ==
    /\ pc = "done"
    /\ result = "True"
    /\ \E i \in DOMAIN data.rows :
          /\ file.rows[data.rows[i].idx + 1]["Transaction Date"] = "ERROR"
          /\ file.rows[data.rows[i].idx + 1]["Quantity"] = "UNKNOWN"
          /\ IsNull(data.rows[i].v["Transaction Date"])
          /\ IsNull(data.rows[i].v["Quantity"])

\* C7: the Summary counts the records and the missing values of the
\* returned Dataset; five input records, one with an unparseable timestamp
\* and another with a non-numeric total amount, give 4 records, total
\* record count 4 and missing count 1 for the total amount.
C7_SummaryOfFiveRecords ==
    (/\ Returned
     /\ Len(file.rows) = 5
     /\ Cardinality(BadTimestampRows) = 1
     /\ Cardinality(BadTotalRows) = 1
     /\ BadTimestampRows \cap BadTotalRows = {}) =>
        /\ Len(ret.data.rows) = 4
        /\ ret.summary.total_records = 4
        /\ ret.summary.missing_values["Total Spent"] = 1

\* C8: the required-field check precedes all coercion: when the
\* required-field check or the emptiness check fails, nothing has been
\* coerced, no outlier detection has run, and every column still holds its
\* raw values (the timestamp column holds no parsed timestamp).
C8_CheckPrecedesCoercion ==
    err.kind \in {"missing_columns", "empty"} =>
        /\ "dtypes_after_validation" \notin Range(log)
        /\ \A c \in Range(numeric_columns) : outliers[c] = {}
        /\ \A i \in DOMAIN data.rows :
              data.rows[i].v["Transaction Date"].kind # "ts"

\* C9: when the path does not exist load fails with FileNotFoundError
\* before anything is read or validated, and the error reaches the caller.
C9_MissingFileFails ==
    ~exists =>
        /\ pc \in {"load_data", "raised", "done"}
        /\ data = NoData
        /\ "raw_data_info" \notin Range(log)
        /\ ~Returned
        /\ pc \in {"raised", "done"} =>
              err = Error("FileNotFoundError", "not_found", {})
        /\ pc = "done" => result = "False"

C9_Witness ==
    /\ ~exists
    /\ file_path = "sales_2023.csv"
    /\ pc = "raised"
    /\ err.type = "FileNotFoundError"

\* the values present in column c of the frame, by position
PresentAt(c) == {i \in DOMAIN data.rows : data.rows[i].v[c].kind = "num"}
ValueAt(c, i) == data.rows[i].v[c].num

\* the k-th smallest value present in column c
OrderStatistic(c, k) ==
    CHOOSE v \in {ValueAt(c, i) : i \in PresentAt(c)} :
        /\ Cardinality({i \in PresentAt(c) : ValueAt(c, i) < v}) < k
        /\ Cardinality({i \in PresentAt(c) : ValueAt(c, i) <= v}) >= k

\* four times the (25 * num)-th percentile of the values present in column
\* c, by linear interpolation between order statistics
Percentile4(c, num) ==
    LET h4 == (Cardinality(PresentAt(c)) - 1) * num
        k == (h4 \div 4) + 1
        fr == h4 % 4
    IN  IF fr = 0 THEN 4 * OrderStatistic(c, k)
        ELSE (4 - fr) * OrderStatistic(c, k) + fr * OrderStatistic(c, k + 1)

\* C10: for each numeric field the outliers are exactly the records whose
\* value is present and lies below Q1 - 3*IQR or above Q3 + 3*IQR; a value
\* on a fence is not an outlier.
C10_OutliersOutsideFences ==
    pc = "filter_by_date" =>
        \A c \in Range(numeric_columns) :
            LET Q1 == Percentile4(c, 1)
                Q3 == Percentile4(c, 3)
                IQR == Q3 - Q1
            IN  outliers[c] =
                    {data.rows[i].idx : i \in
                        {j \in PresentAt(c) :
                            \/ 4 * ValueAt(c, j) < Q1 - 3 * IQR
                            \/ 4 * ValueAt(c, j) > Q3 + 3 * IQR}}

\* outliers were found in one field while, in another field with a
\* positive IQR, a value lies on the upper fence and is not reported
C10_Witness ==
    /\ pc = "filter_by_date"
    /\ outliers["Total Spent"] # {}
    /\ \E i \in PresentAt("Quantity") :
          /\ 4 * ValueAt("Quantity", i) =
                Percentile4("Quantity", 3)
                + 3 * (Percentile4("Quantity", 3) - Percentile4("Quantity", 1))
          /\ Percentile4("Quantity", 3) > Percentile4("Quantity", 1)
          /\ data.rows[i].idx \notin outliers["Quantity"]

C12_OutlierCheckKeepsData ==
    [][pc = "check_outliers" => data' = data]_vars

\* outliers were reported in all three numeric fields and every record
\* read is still in the Dataset
C12_Witness ==
    /\ pc = "filter_by_date"
    /\ \A c \in Range(numeric_columns) : outliers[c] # {}
    /\ Len(data.rows) = Len(file.rows)
    /\ \A i \in DOMAIN data.rows : data.rows[i].idx = i - 1

\* the calendar day of a timestamp, and of a configured bound
CalendarDay(t) == t \div 24

\* the record's timestamp lies in the closed date interval configured
InDateInterval(r) ==
    LET c == r.v["Transaction Date"]
    IN  /\ Truthy(start_date) =>
              c.kind = "ts" /\ CalendarDay(c.num) >= CalendarDay(DateValue[start_date])
        /\ Truthy(end_date) =>
              c.kind = "ts" /\ CalendarDay(c.num) <= CalendarDay(DateValue[end_date])

\* C13: the Range Filter keeps exactly the records whose timestamp lies
\* within the closed date interval [start, end], an absent bound imposing
\* nothing on its side, so that a record dated on a bound is kept; with
\* both bounds absent the Dataset is unchanged.
C13_RangeFilterClosedInterval ==
    [][pc = "filter_by_date" =>
          /\ data'.rows = SelectSeq(data.rows, InDateInterval)
          /\ (~Truthy(start_date) /\ ~Truthy(end_date)) => data' = data]_vars

\* the sum of f over the finite set S
RECURSIVE SumOver(_, _)
SumOver(f, S) ==
    IF S = {} THEN 0
    ELSE LET x == CHOOSE y \in S : TRUE IN f[x] + SumOver(f, S \ {x})

\* the records of the returned Dataset that have a total amount, and
\* those that have a timestamp
ReturnedWithTotal ==
    {i \in DOMAIN ret.data.rows : ret.data.rows[i].v["Total Spent"].kind = "num"}
ReturnedWithTimestamp ==
    {i \in DOMAIN ret.data.rows : ret.data.rows[i].v["Transaction Date"].kind = "ts"}

\* C16: load returns the Dataset it holds, filtered when a bound is
\* configured, with the Summary of that same Dataset: total_sales is the sum
\* of the total amounts present in the returned records, and the date range
\* is the least and the greatest timestamp of the returned records.
C16_SummaryOfReturnedDataset ==
    Returned =>
        /\ ret.data = data
        /\ ret.summary = summary
        /\ Truthy(start_date) => \A i \in DOMAIN ret.data.rows :
              /\ ret.data.rows[i].v["Transaction Date"].kind = "ts"
              /\ ret.data.rows[i].v["Transaction Date"].num >= DateValue[start_date]
        /\ Truthy(end_date) => \A i \in DOMAIN ret.data.rows :
              /\ ret.data.rows[i].v["Transaction Date"].kind = "ts"
              /\ ret.data.rows[i].v["Transaction Date"].num <= DateValue[end_date]
        /\ ret.summary.total_records = Len(ret.data.rows)
        /\ ret.summary.total_sales =
              SumOver([i \in ReturnedWithTotal |-> ret.data.rows[i].v["Total Spent"].num],
                      ReturnedWithTotal)
        /\ \A i \in ReturnedWithTimestamp :
              /\ ret.summary.date_range.start.kind = "ts"
              /\ ret.summary.date_range.start.num <= ret.data.rows[i].v["Transaction Date"].num
              /\ ret.summary.date_range.end.num >= ret.data.rows[i].v["Transaction Date"].num
        /\ ReturnedWithTimestamp = {} =>
              /\ IsNull(ret.summary.date_range.start)
              /\ IsNull(ret.summary.date_range.end)
        /\ ReturnedWithTimestamp # {} =>
              /\ \E i \in ReturnedWithTimestamp :
                    ret.data.rows[i].v["Transaction Date"] = ret.summary.date_range.start
              /\ \E i \in ReturnedWithTimestamp :
                    ret.data.rows[i].v["Transaction Date"] = ret.summary.date_range.end

\* a start bound removed a record; of the records returned one has no
\* total amount, the others add up to 12, and they span more than a day
C16_Witness ==
    /\ Returned
    /\ Truthy(start_date)
    /\ Len(ret.data.rows) < Len(file.rows)
    /\ \E i \in DOMAIN ret.data.rows : IsNull(ret.data.rows[i].v["Total Spent"])
    /\ ret.summary.total_sales = 12
    /\ ret.summary.date_range.start = Ts(48)
    /\ ret.summary.date_range.end = Ts(72)

\* C17: the Summary Builder succeeds on every Dataset that has the required
\* fields; for a Dataset without records it gives record count 0, total 0,
\* distinct counts 0, no payment-method counts and an undefined date range,
\* and raises nothing.
C17_SummaryOfEmptyDataset ==
    /\ pc = "returned" => (Returned /\ ~summary.isNone /\ err = NoError)
    /\ "successfully_loaded" \in Range(log) => err = NoError
    /\ (Returned /\ ret.data.rows = <<>>) =>
          /\ ret.summary.total_records = 0
          /\ ret.summary.total_sales = 0
          /\ ret.summary.unique_items = 0
          /\ ret.summary.unique_locations = 0
          /\ DOMAIN ret.summary.payment_methods = {}
          /\ IsNull(ret.summary.date_range.start)
          /\ IsNull(ret.summary.date_range.end)
          /\ err = NoError

\* the Range Filter removed every record of a file that had some, and the
\* Summary of the empty Dataset was returned
C17_Witness ==
    /\ Returned
    /\ Len(file.rows) >= 2
    /\ ret.data.rows = <<>>
    /\ ret.summary.total_records = 0
    /\ IsNull(ret.summary.date_range.start)

\* C18: the per-payment-method counts of the Summary count all records:
\* they add up to the total record count.
C18_PaymentCountsAddUp ==
    Returned =>
        SumOver(ret.summary.payment_methods, DOMAIN ret.summary.payment_methods)
            = ret.summary.total_records

\* the bounds now configured admit every timestamp the earlier bounds did
IntervalContained ==
    /\ Truthy(start_date) =>
          Truthy(interval.start) /\ DateValue[start_date] <= DateValue[interval.start]
    /\ Truthy(end_date) =>
          Truthy(interval.end) /\ DateValue[end_date] >= DateValue[interval.end]

\* C14: the Range Filter is idempotent: filtering to an interval I and
\* then to an interval J that contains I gives exactly the records of
\* filtering to I once.
C14_FilterIdempotent ==
    (pc = "refiltered" /\ IntervalContained) => data = pdata

\* data filtered to the single day 2023-01-02, which removed a record and
\* kept one, was filtered again to 2023-01-01 .. 2023-01-03
C14_Witness ==
    /\ pc = "refiltered"
    /\ interval = [start |-> "2023-01-02", end |-> "2023-01-02"]
    /\ start_date = "2023-01-01"
    /\ end_date = "2023-01-03"
    /\ Len(pdata.rows) < Len(file.rows)
    /\ data.rows # <<>>

\* C15: the Range Filter does not mutate its input: the result is a
\* subsequence of the input in the original order with every kept record
\* as it was, and the snapshot a caller holds is unaffected.
C15_FilterKeepsInput ==
    [][(pc \in {"filter_by_date", "reconfigured"}) =>
          (/\ data'.columns = data.columns
           /\ data'.rows = SelectSeq(data.rows, LAMBDA r : r \in Range(data'.rows))
           /\ pdata' = pdata
           /\ ret' = ret)]_vars

\* a second filter removed records from the loader's data while the
\* pipeline still holds the longer frame it was handed
C15_Witness ==
    /\ pc = "refiltered"
    /\ data.rows # <<>>
    /\ Len(data.rows) < Len(pdata.rows)
    /\ pdata = ret.data

\* C19: the Revenue column of the Item-performance view adds up to the
\* Summary's total_sales.
C19_ItemRevenueIsTotalSales ==
    view.name = "product_performance" =>
        SumOver([k \in DOMAIN view.rows |-> view.rows[k].Revenue], DOMAIN view.rows)
            = psummary.total_sales

\* the values of a grouping field observed in the pipeline's data
ObservedValues(c) ==
    {pdata.rows[i].v[c].txt : i \in {j \in DOMAIN pdata.rows : pdata.rows[j].v[c].kind = "str"}}

\* the calendar dates observed in the pipeline's data
ObservedDates ==
    {DateName[CalendarDay(pdata.rows[i].v["Transaction Date"].num)] :
        i \in {j \in DOMAIN pdata.rows : pdata.rows[j].v["Transaction Date"].kind = "ts"}}

\* the four grouped views and their grouping fields
GroupingField ==
    [n \in {"sales_trend", "product_performance", "location_analysis", "payment_methods"} |->
        CASE n = "sales_trend" -> "Transaction Date"
          [] n = "product_performance" -> "Item"
          [] n = "location_analysis" -> "Location"
          [] n = "payment_methods" -> "Payment Method"]

\* the grouping field's observed values, by view
ObservedKeys ==
    CASE view.name = "sales_trend" -> ObservedDates
      [] view.name = "product_performance" -> ObservedValues("Item")
      [] view.name = "location_analysis" -> ObservedValues("Location")
      [] view.name = "payment_methods" -> ObservedValues("Payment Method")

ItemRevenue(k) ==
    LET S == {i \in DOMAIN pdata.rows :
                /\ pdata.rows[i].v["Item"] = Str(k)
                /\ pdata.rows[i].v["Total Spent"].kind = "num"}
    IN  SumOver([i \in S |-> pdata.rows[i].v["Total Spent"].num], S)

RecordsAt(dn, h) ==
    {i \in DOMAIN pdata.rows :
        /\ pdata.rows[i].v["Transaction Date"].kind = "ts"
        /\ DayNameOf(pdata.rows[i].v["Transaction Date"].num) = dn
        /\ pdata.rows[i].v["Transaction Date"].num % 24 = h}

\* C21: the Time-heatmap view is a dense grid: it has exactly 7 x 24 = 168
\* entries, one per (day of week, hour 0-23), and an entry of a day and
\* hour without records has sum 0, not a missing value.
C21_HeatmapDenseGrid ==
    view.name = "time_heatmap" =>
        /\ DOMAIN view.rows = Range(day_order)
        /\ \A dn \in Range(day_order) :
              /\ DOMAIN view.rows[dn] = 0..23
              /\ \A h \in DOMAIN view.rows[dn] :
                    RecordsAt(dn, h) = {} =>
                        view.rows[dn][h] = [isNaN |-> FALSE, sum |-> 0]

\* the records of the pipeline's data of calendar date k, and those of
\* them with a total amount
RecordsOn(k) ==
    {i \in DOMAIN pdata.rows :
        /\ pdata.rows[i].v["Transaction Date"].kind = "ts"
        /\ DateName[CalendarDay(pdata.rows[i].v["Transaction Date"].num)] = k}
AmountsOn(k) == {i \in RecordsOn(k) : pdata.rows[i].v["Total Spent"].kind = "num"}

\* C22: the Daily-sales view has one entry per calendar date observed,
\* the time of day discarded; sum is the sum of the total amounts present
\* among the date's records, count their number, and mean = sum / count;
\* two records of one date with amounts 10 and 15 give 25, 2 and 12.5.
C22_DailySales ==
    view.name = "sales_trend" =>
        /\ DOMAIN view.rows = ObservedDates
        /\ \A k \in DOMAIN view.rows :
              /\ view.rows[k].sum =
                    SumOver([i \in AmountsOn(k) |-> pdata.rows[i].v["Total Spent"].num],
                            AmountsOn(k))
              /\ view.rows[k].count = Cardinality(AmountsOn(k))
              /\ view.rows[k].mean.isNaN = (AmountsOn(k) = {})
              /\ AmountsOn(k) # {} =>
                    view.rows[k].mean.num * view.rows[k].count
                        = view.rows[k].sum * view.rows[k].mean.den
        /\ (file = SameDayFile /\ Len(pdata.rows) = 2) =>
              /\ DOMAIN view.rows = {"2023-01-02"}
              /\ view.rows["2023-01-02"].sum = 25
              /\ view.rows["2023-01-02"].count = 2
              /\ 2 * view.rows["2023-01-02"].mean.num = 25 * view.rows["2023-01-02"].mean.den

\* the view of two records of 2023-01-02, one at midnight with amount 10
\* and one at 15:00 with amount 15
C22_Witness ==
    /\ view.name = "sales_trend"
    /\ file = SameDayFile
    /\ Len(pdata.rows) = 2
    /\ pdata.rows[1].v["Transaction Date"] = Ts(48)
    /\ pdata.rows[2].v["Transaction Date"] = Ts(63)
    /\ view.rows["2023-01-02"].sum = 25

\* C23: the Summary Builder and the five views leave the cleaned Dataset
\* as it was returned by the load - same columns, records and values - and
\* a Summary computed after the views equals the one computed before.
C23_ViewsLeaveDataset ==
    (pc \in {"charted", "summarised"}) =>
        /\ pdata = ret.data
        /\ psummary = ret.summary

\* C24: asking for a view under a name that is not one of the five fails
\* with UnknownViewError and leaves the Dataset unchanged.
C24_UnknownViewFails ==
    (lookup.name # None /\ lookup.name \notin ViewNames) =>
        /\ lookup.error = "UnknownViewError"
        /\ pdata = ret.data

\* a load_data call has completed successfully on the loader
LoadCompleted == "successfully_loaded" \in Range(log)

\* C25: get_data_summary and save_processed_data raise ValueError in every
\* state in which no load_data call has completed successfully on the
\* loader: before any load and after a load that failed.
C25_NotLoadedRaises ==
    (call.op # None /\ ~LoadCompleted) => call.error = "ValueError"

\* the steps of run_full_pipeline, in order
PipelineOrder == <<"data_loading", "print_summary", "visualization", "dashboard">>

\* C26: run_full_pipeline runs its steps in the order data loading, summary
\* printing, visualization, dashboard; it stops at the first failing step
\* and returns False; visualization runs only after a successful load, the
\* dashboard only if asked for and after loading and visualization
\* succeeded, and True is returned only when every executed step succeeded.
C26_PipelineStopsAtFirstFailure ==
    (RunsFullPipeline /\ cli.stage = "exited" /\ ~cli.interrupted) =>
        /\ Len(cli.steps) <= 4
        /\ \A i \in DOMAIN cli.steps : cli.steps[i] = PipelineOrder[i]
        /\ cli.returned \in {"True", "False"}
        /\ cli.failed # {} =>
              /\ cli.returned = "False"
              /\ cli.failed = {cli.steps[Len(cli.steps)]}
        /\ cli.failed = {} => cli.returned = "True"
        /\ "visualization" \in Range(cli.steps) => result = "True"
        /\ "dashboard" \in Range(cli.steps) =>
              cli.show_dashboard /\ result = "True" /\ cli.viz_ok

\* C27: main exits with status 1 when data loading, visualization or the
\* dashboard failed or an exception escaped, in every mode, and with status
\* 0 only when every requested step succeeded or the user interrupted the
\* run; in --visualize mode a failed load keeps visualization from running.
C27_ExitStatusReportsFailure ==
    cli.stage = "exited" =>
        /\ cli.status \in {"0", "1"}
        /\ cli.interrupted => cli.status = "0"
        /\ ~cli.interrupted => (cli.status = "1" <=> cli.failed # {})
        /\ (cli.mode = "visualize" /\ "data_loading" \in cli.failed) =>
              "visualization" \notin Range(cli.steps)

\* _filter_by_date, lines 156-166, under the bounds s and e
FilterBetween(d, s, e) ==
    [d EXCEPT !.rows = SelectSeq(d.rows, LAMBDA r :
        /\ OnOrAfter(r.v["Transaction Date"], BoundValue(s))
        /\ OnOrBefore(r.v["Transaction Date"], BoundValue(e)))]

\* the dashboard has applied a date range and nothing else
OnlyDatesSelected ==
    /\ dash.stage = "filtered"
    /\ Len(dash.date_range) = 2
    /\ dash.location = All
    /\ dash.payment = All
    /\ dash.product = All

\* C28: the loader's Range Filter and the dashboard's date-range filter
\* keep exactly the same records of the same Dataset under the same
\* (start date, end date) pair, records on the end date at a time of day
\* after midnight included.
C28_SameDateSemantics ==
    OnlyDatesSelected =>
        dash.filtered_data.rows =
            FilterBetween(dash.data, dash.date_range[1], dash.date_range[2]).rows

\* the record satisfies every filter selected in the sidebar; a date range
\* whose end has not been picked yet selects nothing
Selected(r) ==
    /\ Len(dash.date_range) = 2 =>
          LET c == r.v["Transaction Date"]
          IN  /\ c.kind = "ts"
              /\ CalendarDay(c.num) >= CalendarDay(DateValue[dash.date_range[1]])
              /\ CalendarDay(c.num) <= CalendarDay(DateValue[dash.date_range[2]])
    /\ dash.location # All => r.v["Location"] = dash.location /\ ~IsNull(dash.location)
    /\ dash.payment # All => r.v["Payment Method"] = dash.payment /\ ~IsNull(dash.payment)
    /\ dash.product # All => r.v["Item"] = dash.product /\ ~IsNull(dash.product)

\* the record without the columns a chart has added
OfData(r) == [r EXCEPT !.v = Restrict(r.v, dash.data.columns)]

\* C29: in the dashboard, after load_data and after the filter selections
\* and resets, filtered_data holds, in the order of data, exactly the
\* records of data that satisfy every selected filter ('All' imposing
\* nothing), and data stays the frame the loader returned.
C29_FilteredDataIsSelection ==
    /\ dash.stage \in {"loaded", "filtered", "rendered", "rerun", "error"} =>
          /\ dash.data = ret.data
          /\ dash.data = pdata
    /\ dash.stage \in {"loaded", "rerun"} => dash.filtered_data = dash.data
    /\ dash.stage = "filtered" =>
          /\ dash.filtered_data.columns = dash.data.columns
          /\ dash.filtered_data.rows = SelectSeq(dash.data.rows, Selected)
    /\ dash.stage = "rendered" =>
          [i \in DOMAIN dash.filtered_data.rows |-> OfData(dash.filtered_data.rows[i])]
              = SelectSeq(dash.data.rows, Selected)

\* a date range, a location and a payment method are selected, and some
\* records of data are kept and some are not
C29_Witness ==
    /\ dash.stage = "filtered"
    /\ Len(dash.date_range) = 2
    /\ dash.location # All
    /\ dash.payment # All
    /\ dash.filtered_data.rows # <<>>
    /\ Len(dash.filtered_data.rows) < Len(dash.data.rows)

\* the configuration file exists and loads: it holds a mapping whose
\* values fit their settings
FileLoads(disk) ==
    /\ disk.kind = "mapping"
    /\ \A f \in DOMAIN disk.doc :
          \/ f = "input_file" /\ disk.doc[f] = Str("sales_2023.csv")
          \/ f = "start_date" /\ disk.doc[f] \in {Str("2023-01-02"), Null}
          \/ f = "refresh_interval" /\ disk.doc[f] \in {Num(60), Str("60")}

\* the configuration says what the file says, and the default elsewhere
HoldsFileValues(c, disk) ==
    /\ c.input_file = IF "input_file" \in DOMAIN disk.doc THEN "sales_2023.csv"
                      ELSE "dirty_cafe_sales.csv"
    /\ c.start_date = IF "start_date" \in DOMAIN disk.doc /\ disk.doc["start_date"] # Null
                      THEN "2023-01-02" ELSE None
    /\ c.refresh_interval = IF "refresh_interval" \in DOMAIN disk.doc THEN 60 ELSE 300

\* C30: after construction and after any sequence of reload_config calls
\* the configuration manager holds, and get_config returns, a non-null
\* complete Config: the file's values when the configuration file exists
\* and loads, the complete default configuration when the file is absent
\* or loading it fails; no call raises to the caller.
C30_AlwaysUsableConfig ==
    /\ cfg.stage # "new" =>
          /\ ~cfg.config.isNone
          /\ DOMAIN cfg.config = {"isNone"} \cup ConfigFields
    /\ cfg.stage = "loaded" =>
          IF FileLoads(cfg.disk)
          THEN HoldsFileValues(cfg.config, cfg.disk)
          ELSE cfg.config = DefaultConfig
    /\ cfg.returned # NoConfig =>
          /\ ~cfg.returned.isNone
          /\ DOMAIN cfg.returned = {"isNone"} \cup ConfigFields

\* a configuration read from the file was handed out, then the file became
\* unloadable and reload_config fell back to the defaults
C30_Witness ==
    /\ cfg.stage = "loaded"
    /\ cfg.reloaded
    /\ cfg.disk.kind \in {"empty", "sequence", "malformed", "mapping"}
    /\ ~FileLoads(cfg.disk)
    /\ cfg.returned # NoConfig
    /\ cfg.returned # DefaultConfig
    /\ cfg.config = DefaultConfig

====
